---- MODULE Spec2Model ----
(***************************************************************************)
(* BetterFetchClient: request execution, retry/backoff and cancellation.   *)
(*                                                                         *)
(* The repository holds three variants of the client:                      *)
(*   "config"     src/src/better-fetch-client.ts lines 1-304               *)
(*                (config-object constructor, content negotiation, the     *)
(*                caller's AbortSignal is passed through)                  *)
(*   "positional" src/src/better-fetch-client.ts lines 306-562             *)
(*                (positional constructor, unconditional JSON decode)      *)
(*   "tracking"   src/unnamed/part_000                                     *)
(*                (request identifiers, abortControllers, cancelRequest)   *)
(*                                                                         *)
(* A request is a chain of attempts.  Every await of the code is one       *)
(* step: the awaited promise settles and the code runs to its next await.  *)
(***************************************************************************)
EXTENDS Integers, Sequences, FiniteSets, TLC

VARIABLES
    variant,          \* which of the three classes is under test
    withRetry,        \* this.withRetry
    maxRetries,       \* this.maxRetries
    initialDelayMs,   \* this.initialDelayMs
    headers,          \* this.headers (the entries the constructor stored)
    baseUrl,          \* this.baseUrl
    name,             \* this.name (config variant)
    usable,           \* the constructor returned an instance
    overridden,       \* a subclass overrides handleError to return normally
    req,              \* per logical request: the call chain's local state
    abortControllers, \* this.abortControllers (tracking variant)
    aborted,          \* the abort handles whose abort() has been called
    created,          \* history: entries stored in abortControllers
    removals,         \* history: delete operations executed on abortControllers
    deletedAbsent,    \* history: some delete found no entry for its id
    cancels           \* history: the ids cancelRequest was called with, in order

vars == <<variant, withRetry, maxRetries, initialDelayMs, headers, baseUrl, name,
          usable, overridden, req, abortControllers,
          aborted, created, removals, deletedAbsent, cancels>>

client == <<variant, withRetry, maxRetries, initialDelayMs, headers, baseUrl, name,
            usable, overridden>>
registry == <<abortControllers, created, removals, deletedAbsent>>

(* ---------------------------- bounds ----------------------------------- *)
MaxRetriesBound == 3
MaxInitialDelay == 2
MaxCancels == 2

(* ---------------------------- domains ---------------------------------- *)
Variants == {"config", "positional", "tracking"}
Reqs == {1, 2}
Ids == {"a", "b"}
NoId == "-"
Methods == {"GET", "POST"}
Bodies == {"null", "obj", "circular"}
Statuses == {200, 304, 404, 503}
BodyKinds == {"json", "text", "none"}
ContentTypes == {"application/json", "text/plain", "application/blob",
                 "application/x-www-form-urlencoded", "other", "absent"}
Omitted == -1

(* Header maps: a value per header name, Absent when the name is not set.  *)
Absent == ""
HeaderNames == {"Content-Type", "X-Api-Key"}
HeaderMaps ==
    {h \in [HeaderNames -> {Absent, "application/json", "text/plain", "k1", "k2"}] :
        /\ h["Content-Type"] \in {Absent, "application/json", "text/plain"}
        /\ h["X-Api-Key"] \in {Absent, "k1", "k2"}}
NoHeaders == [n \in HeaderNames |-> Absent]
DefaultContentType ==
    [n \in HeaderNames |-> IF n = "Content-Type" THEN "application/json" ELSE Absent]

(* Body arguments beyond Bodies: 0 (non-null but falsy) and a string.      *)
AllBodies == Bodies \cup {"zero", "text"}
NullBody == [enc |-> "none", of |-> "null"]

NoHandle == <<0, 0>>
NoResp == [status |-> 0, body |-> "none", ctype |-> "other"]
NoErr == [kind |-> "none", status |-> 0]

IdleReq ==
    [pc |-> "idle", method |-> "GET", body |-> "null", requestId |-> NoId,
     retries |-> 0, defaulted |-> TRUE, ctl |-> NoHandle,
     resp |-> NoResp, used |-> FALSE, error |-> NoErr, outcome |-> "pending",
     calls |-> 0, always503 |-> TRUE, lastStatus |-> 0, start |-> 0,
     waits |-> <<>>, waited |-> <<>>, delay |-> 0, elapsed |-> 0,
     cancelledAt |-> "no",
     last |-> NoResp, payload |-> "none", data |-> "none",
     thrown |-> NoErr, thrownAt |-> 0, hooked |-> 0, hookArg |-> NoErr,
     customHeaders |-> NoHeaders, sentHeaders |-> NoHeaders,
     sent |-> NullBody, serialized |-> FALSE, idReturned |-> FALSE,
     reread |-> FALSE]

ReadPcs == {"json", "parseText", "respText",
            "errJson", "errText", "okRead", "perrJson", "perrText"}

(* ---------------------------- pure helpers ----------------------------- *)
RECURSIVE Pow2(_)
Pow2(n) == IF n <= 0 THEN 1 ELSE 2 * Pow2(n - 1)

okIncludesRedirect(status) == status >= 200 /\ status <= 399

ok(status) == status >= 200 /\ status <= 299

ApiResponseError(status) == [kind |-> "ApiResponseError", status |-> status]
ApiParseError(status) == [kind |-> "ApiParseError", status |-> status]
OtherError(kind) == [kind |-> kind, status |-> 0]

shouldRetryAnyStatus(error) ==
    withRetry /\ error.kind = "ApiResponseError"

shouldRetry(error) ==
    withRetry /\ error.kind = "ApiResponseError" /\ error.status >= 500

handleErrorWraps(error) == [kind |-> "Error", status |-> 0]

handleError(error) == error

RetryDelayLinear(retries) == initialDelayMs * (retries + 1)

RetryDelay(retries) == initialDelayMs * Pow2(retries)

(* { ...a, ...b }: the own properties of b override those of a.           *)
SpreadMerge(a, b) ==
    [n \in HeaderNames |-> IF b[n] # Absent THEN b[n] ELSE a[n]]

(* What the constructor stores in this.headers.                            *)
ConstructorHeaders(v, arg) ==
    IF v = "positional" THEN arg ELSE SpreadMerge(DefaultContentType, arg)

(* What `...this.headers` copies: this.headers is a plain object in the    *)
(* config variant and a Headers instance, which has no own enumerable      *)
(* properties, in the other two.                                           *)
OwnProperties(v, h) == IF v = "config" THEN h ELSE NoHeaders

RequestHeaders(v, h, custom) == SpreadMerge(OwnProperties(v, h), custom)

Truthy(body) == body \notin {"null", "zero"}

(* JSON.stringify is applied to the body argument.                         *)
Stringifies(v, method, body, contentType) ==
    /\ method # "GET"
    /\ Truthy(body)
    /\ (v = "config" => contentType = "application/json")

BodyInitAnyMethod(v, method, body, contentType) ==
    IF Truthy(body)
    THEN [enc |-> IF v = "config" /\ contentType # "application/json"
                  THEN "raw" ELSE "json",
          of |-> body]
    ELSE NullBody

(* The body member of the RequestInit handed to fetch.                     *)
BodyInit(v, method, body, contentType) ==
    IF method # "GET" /\ Truthy(body)
    THEN [enc |-> IF Stringifies(v, method, body, contentType)
                  THEN "json" ELSE "raw",
          of |-> body]
    ELSE NullBody

JsonStringifyThrows(method, body) ==
    method # "GET" /\ body # "null" /\ body = "circular"

DefaultRetries == IF variant = "config" THEN maxRetries ELSE 0

StartRetries(retriesArg) ==
    IF retriesArg = Omitted THEN DefaultRetries ELSE retriesArg

IsAborted(r) == r.ctl # NoHandle /\ r.ctl \in aborted

(* One read of a response body through json(), text() or blob().           *)
ReadResult(reader, resp, used, isAborted) ==
    IF used THEN "TypeError"
    ELSE IF resp.body = "none"
         THEN (IF reader = "json" THEN "SyntaxError" ELSE "ok")
    ELSE IF isAborted THEN "AbortError"
    ELSE IF reader = "json" /\ resp.body # "json" THEN "SyntaxError"
    ELSE "ok"

NegotiateNoText(ctype) ==
    IF ctype = "application/json" THEN "json"
    ELSE IF ctype = "application/blob" THEN "blob"
    ELSE IF ctype = "application/x-www-form-urlencoded" THEN "form"
    ELSE "unsupported"

(* The if-chain on the response Content-Type: how a success body is       *)
(* decoded ('' when the header is absent).                                 *)
Negotiate(ctype) ==
    IF ctype = "application/json" THEN "json"
    ELSE IF ctype = "text/plain" THEN "text"
    ELSE IF ctype = "application/blob" THEN "blob"
    ELSE IF ctype = "application/x-www-form-urlencoded" THEN "form"
    ELSE "unsupported"

ReaderAt(pc, resp) ==
    IF pc \in {"json", "errJson", "perrJson"} THEN "json"
    ELSE IF pc \in {"parseText", "respText", "errText", "perrText"} THEN "text"
    ELSE IF Negotiate(resp.ctype) = "json" THEN "json"
    ELSE IF Negotiate(resp.ctype) = "blob" THEN "blob"
    ELSE "text"

Await(pc) == [act |-> "await", pc |-> pc, error |-> NoErr]
Throw(error) == [act |-> "throw", pc |-> "", error |-> error]
Return == [act |-> "return", pc |-> "", error |-> NoErr]

(* The code between two awaits of the unconditional-JSON variants.         *)
JsonFirstStep(pc, res, status) ==
    IF pc = "json"
    THEN (IF res # "ok" THEN Await("parseText")
          ELSE IF ~ok(status) THEN Await("respText")
          ELSE Return)
    ELSE IF pc = "parseText"
    THEN (IF res = "ok" THEN Throw(ApiParseError(status))
          ELSE Throw(OtherError(res)))
    ELSE (IF res = "ok" THEN Throw(ApiResponseError(status))
          ELSE Throw(OtherError(res)))

(* The code between two awaits of the content-negotiating variant.         *)
NegotiatedStep(pc, res, status) ==
    IF pc = "errJson"
    THEN (IF res = "ok" THEN Throw(ApiResponseError(status))
          ELSE Await("errText"))
    ELSE IF pc = "errText"
    THEN (IF res = "ok" THEN Throw(ApiResponseError(status))
          ELSE Throw(OtherError(res)))
    ELSE IF pc = "okRead"
    THEN (IF res = "ok" THEN Return ELSE Await("perrJson"))
    ELSE IF pc = "perrJson"
    THEN (IF res = "ok" THEN Throw(ApiParseError(status))
          ELSE Await("perrText"))
    ELSE (IF res = "ok" THEN Throw(ApiParseError(status))
          ELSE Throw(OtherError(res)))

(* What an ApiError thrown at this step carries as its response body.      *)
ErrorPayload(st, reader) ==
    IF st.act = "throw" /\ st.error.kind \in {"ApiResponseError", "ApiParseError"}
    THEN reader
    ELSE "none"

(* What the call returns as data at this step.                             *)
DecodedData(st, ctype) ==
    IF st.act # "return" THEN "none"
    ELSE IF variant = "config" THEN Negotiate(ctype)
    ELSE "json"

Finish(r, outcome, error) ==
    [r EXCEPT !.pc = "done", !.outcome = outcome, !.error = error,
              !.resp = NoResp, !.used = FALSE, !.delay = 0, !.elapsed = 0]

Backoff(r, error) ==
    [r EXCEPT !.pc = "backoff", !.error = error, !.resp = NoResp,
              !.used = FALSE, !.delay = RetryDelay(r.retries), !.elapsed = 0,
              !.waits = Append(@, RetryDelay(r.retries))]

AfterCatchHooksEachAttempt(r, error) ==
    LET r1 == [r EXCEPT !.thrown = error, !.thrownAt = r.calls,
                        !.hooked = @ + 1, !.hookArg = error]
    IN  IF r.retries < maxRetries /\ shouldRetry(error)
        THEN Backoff(r1, error)
        ELSE IF overridden
        THEN Finish([r1 EXCEPT !.data = "null"], "ok", NoErr)
        ELSE Finish(r1, "error", handleError(error))

AfterCatchOneMore(r, error) ==
    LET r1 == [r EXCEPT !.thrown = error, !.thrownAt = r.calls]
    IN  IF r.retries <= maxRetries /\ shouldRetry(error)
        THEN Backoff(r1, error)
        ELSE IF overridden
        THEN Finish([r1 EXCEPT !.hooked = @ + 1, !.hookArg = error,
                               !.data = "null"], "ok", NoErr)
        ELSE Finish([r1 EXCEPT !.hooked = @ + 1, !.hookArg = error],
                    "error", handleError(error))

(* The catch block: retry, or hand the error to handleError; when an       *)
(* overriding hook returns, the call falls through to the final return     *)
(* with null data.                                                         *)
AfterCatch(r, error) ==
    LET r1 == [r EXCEPT !.thrown = error, !.thrownAt = r.calls]
    IN  IF r.retries < maxRetries /\ shouldRetry(error)
        THEN Backoff(r1, error)
        ELSE IF overridden
        THEN Finish([r1 EXCEPT !.hooked = @ + 1, !.hookArg = error,
                               !.data = "null"], "ok", NoErr)
        ELSE Finish([r1 EXCEPT !.hooked = @ + 1, !.hookArg = error],
                    "error", handleError(error))

(* ---------------------------- registry --------------------------------- *)
DeleteEntry(id) ==
    /\ abortControllers' = [abortControllers EXCEPT ![id] = NoHandle]
    /\ removals' = removals + 1
    /\ deletedAbsent' = (deletedAbsent \/ abortControllers[id] = NoHandle)
    /\ UNCHANGED created

StoreEntryNothing(id, handle) ==
    /\ abortControllers' = abortControllers
    /\ created' = created + 1
    /\ UNCHANGED <<removals, deletedAbsent>>

StoreEntry(id, handle) ==
    /\ abortControllers' = [abortControllers EXCEPT ![id] = handle]
    /\ created' = created + 1
    /\ UNCHANGED <<removals, deletedAbsent>>

Cleanup(r) ==
    IF variant = "tracking" THEN DeleteEntry(r.requestId)
    ELSE UNCHANGED registry

(* ---------------------------- continuations ---------------------------- *)
Caught(p, r, error) ==
    /\ req' = [req EXCEPT ![p] = AfterCatch(r, error)]
    /\ Cleanup(r)

Returned(p, r) ==
    /\ req' = [req EXCEPT ![p] = Finish(r, "ok", NoErr)]
    /\ Cleanup(r)

(* The synchronous head of request(): build the RequestInit, call fetch.   *)
Dispatch(p, r) ==
    LET hs == RequestHeaders(variant, headers, r.customHeaders)
        contentType == hs["Content-Type"]
        str == Stringifies(variant, r.method, r.body, contentType)
        r1 == [r EXCEPT !.sentHeaders = hs,
                        !.serialized = (@ \/ str)]
    IN  IF str /\ JsonStringifyThrows(r.method, r.body)
        THEN req' = [req EXCEPT ![p] =
                        Finish(r1, "error", OtherError("StringifyError"))]
        ELSE req' = [req EXCEPT ![p] =
                        [r1 EXCEPT !.pc = "fetch", !.calls = @ + 1,
                                   !.error = NoErr,
                                   !.sent = BodyInit(variant, r.method, r.body,
                                                     contentType)]]

(* ---------------------------- actions ---------------------------------- *)
(* Only the config variant validates its arguments.                        *)
ConstructorThrows(v, baseUrlArg, nameArg) ==
    v = "config" /\ (baseUrlArg = "" \/ nameArg = "")

Constructor(baseUrlArg, nameArg, headersArg) ==
    /\ variant \in Variants
    /\ baseUrl = baseUrlArg
    /\ name = nameArg
    /\ usable = ~ConstructorThrows(variant, baseUrlArg, nameArg)
    /\ headers = ConstructorHeaders(variant, headersArg)
    /\ withRetry \in BOOLEAN
    /\ maxRetries \in 0..MaxRetriesBound
    /\ initialDelayMs \in 1..MaxInitialDelay
    /\ req = [p \in Reqs |-> IdleReq]
    /\ abortControllers = [id \in Ids |-> NoHandle]
    /\ aborted = {}
    /\ created = 0
    /\ removals = 0
    /\ deletedAbsent = FALSE
    /\ cancels = <<>>

Construct(headersArg) ==
    /\ Constructor("https://api", "api", headersArg)
    /\ overridden = FALSE

Init == Construct(NoHeaders)

ConfigRequest(p, method, body, headersArg, signal, retriesArg) ==
    /\ variant = "config"
    /\ usable
    /\ req[p].pc = "idle"
    /\ LET r == [req[p] EXCEPT !.method = method, !.body = body,
                               !.customHeaders = headersArg,
                               !.ctl = IF signal THEN <<p, 0>> ELSE NoHandle,
                               !.defaulted = (retriesArg = Omitted),
                               !.retries = StartRetries(retriesArg),
                               !.start = StartRetries(retriesArg)]
       IN  Dispatch(p, r)
    /\ UNCHANGED <<client, registry, aborted, cancels>>

PositionalRequest(p, method, body, customHeaders, retriesArg) ==
    /\ variant = "positional"
    /\ usable
    /\ req[p].pc = "idle"
    /\ LET r == [req[p] EXCEPT !.method = method, !.body = body,
                               !.customHeaders = customHeaders,
                               !.defaulted = (retriesArg = Omitted),
                               !.retries = StartRetries(retriesArg),
                               !.start = StartRetries(retriesArg)]
       IN  Dispatch(p, r)
    /\ UNCHANGED <<client, registry, aborted, cancels>>

TrackingRequest(p, method, body, customHeaders, retriesArg, requestId) ==
    /\ variant = "tracking"
    /\ usable
    /\ req[p].pc = "idle"
    /\ LET r == [req[p] EXCEPT !.method = method, !.body = body,
                               !.customHeaders = customHeaders,
                               !.requestId = requestId,
                               !.ctl = <<p, 1>>,
                               !.defaulted = (retriesArg = Omitted),
                               !.retries = StartRetries(retriesArg),
                               !.start = StartRetries(retriesArg)]
       IN  /\ StoreEntry(requestId, r.ctl)
           /\ Dispatch(p, r)
    /\ UNCHANGED <<client, aborted, cancels>>

(* The promise returned by the async request() of the tracking variant     *)
(* fulfils with { requestId, response } in the microtask after the call.   *)
RequestFulfils(p) ==
    /\ variant = "tracking"
    /\ req[p].pc = "fetch"
    /\ ~req[p].idReturned
    /\ req' = [req EXCEPT ![p].idReturned = TRUE]
    /\ UNCHANGED <<client, registry, aborted, cancels>>

(* fetch settles in a later task, after the microtasks of the call.        *)
CallReturned(r) == variant = "tracking" => r.idReturned

FetchResolve(p, status, body, ctype) ==
    /\ req[p].pc = "fetch"
    /\ CallReturned(req[p])
    /\ ~IsAborted(req[p])
    /\ (variant = "config" /\ ok(status)) \/ ctype = "other"
    /\ LET r == [req[p] EXCEPT !.resp = [status |-> status, body |-> body,
                                         ctype |-> ctype],
                               !.always503 = (@ /\ status = 503),
                               !.lastStatus = status,
                               !.last = [status |-> status, body |-> body,
                                         ctype |-> ctype]]
       IN  IF variant # "config"
           THEN req' = [req EXCEPT ![p] = [r EXCEPT !.pc = "json"]]
                /\ UNCHANGED registry
           ELSE IF ~ok(status)
           THEN req' = [req EXCEPT ![p] = [r EXCEPT !.pc = "errJson"]]
                /\ UNCHANGED registry
           ELSE IF Negotiate(ctype) = "unsupported"
           THEN Caught(p, r, OtherError("UnsupportedError"))
           ELSE req' = [req EXCEPT ![p] = [r EXCEPT !.pc = "okRead"]]
                /\ UNCHANGED registry
    /\ UNCHANGED <<client, aborted, cancels>>

FetchReject(p, kind) ==
    /\ req[p].pc = "fetch"
    /\ CallReturned(req[p])
    /\ (kind = "AbortError") = IsAborted(req[p])
    /\ Caught(p, [req[p] EXCEPT !.always503 = FALSE, !.lastStatus = 0,
                                !.last = NoResp],
              OtherError(kind))
    /\ UNCHANGED <<client, aborted, cancels>>

ReadSettle(p) ==
    /\ req[p].pc \in ReadPcs
    /\ LET r == req[p]
           res == ReadResult(ReaderAt(r.pc, r.resp), r.resp, r.used, IsAborted(r))
           st == IF variant = "config"
                 THEN NegotiatedStep(r.pc, res, r.resp.status)
                 ELSE JsonFirstStep(r.pc, res, r.resp.status)
           r2 == [r EXCEPT !.used = (@ \/ r.resp.body # "none"),
                           !.reread = (@ \/ r.used),
                           !.payload = ErrorPayload(st, ReaderAt(r.pc, r.resp)),
                           !.data = DecodedData(st, r.resp.ctype)]
       IN  IF st.act = "await"
           THEN req' = [req EXCEPT ![p] = [r2 EXCEPT !.pc = st.pc]]
                /\ UNCHANGED registry
           ELSE IF st.act = "throw"
           THEN Caught(p, r2, st.error)
           ELSE Returned(p, r2)
    /\ UNCHANGED <<client, aborted, cancels>>

(* setTimeout(resolve, delay) resolves once the delay has elapsed.          *)
TimerDue(r) == r.elapsed = r.delay

Tick(p) ==
    /\ req[p].pc = "backoff"
    /\ req[p].elapsed < req[p].delay
    /\ req' = [req EXCEPT ![p].elapsed = @ + 1]
    /\ UNCHANGED <<client, registry, aborted, cancels>>

TimerFire(p) ==
    /\ req[p].pc = "backoff"
    /\ TimerDue(req[p])
    /\ LET r == [req[p] EXCEPT !.retries = @ + 1, !.delay = 0, !.elapsed = 0,
                               !.waited = Append(@, req[p].elapsed),
                               !.ctl = IF variant = "tracking"
                                       THEN <<p, req[p].calls + 1>> ELSE @]
       IN  /\ IF variant = "tracking"
              THEN StoreEntry(r.requestId, r.ctl)
              ELSE UNCHANGED registry
           /\ Dispatch(p, r)
    /\ UNCHANGED <<client, aborted, cancels>>

(* Which point of its chain a request is at, as a caller cancelling sees it. *)
Phase(r) ==
    IF r.pc = "fetch" THEN "fetch"
    ELSE IF r.pc = "backoff" THEN "backoff"
    ELSE IF r.pc \in ReadPcs /\ r.resp.body # "none" /\ ~r.used THEN "read"
    ELSE "no"

MarkCancelled(r) ==
    IF r.cancelledAt = "no" THEN [r EXCEPT !.cancelledAt = Phase(r)] ELSE r

CancelAbortsNothing(id) == {}

CancelAbortsAll(id) ==
    IF abortControllers[id] # NoHandle
    THEN {abortControllers[j] : j \in Ids} \ {NoHandle}
    ELSE {}

CancelAborts(id) ==
    IF abortControllers[id] # NoHandle THEN {abortControllers[id]} ELSE {}

CancelKeepsEntry(id) == UNCHANGED registry

CancelRemovesAlways(id) == DeleteEntry(id)

CancelRemoves(id) ==
    IF abortControllers[id] # NoHandle THEN DeleteEntry(id)
    ELSE UNCHANGED registry

cancelRequest(id) ==
    /\ variant = "tracking"
    /\ Len(cancels) < MaxCancels
    /\ cancels' = Append(cancels, id)
    /\ aborted' = aborted \cup CancelAborts(id)
    /\ CancelRemoves(id)
    /\ req' = [p \in Reqs |->
                 IF req[p].requestId = id THEN MarkCancelled(req[p]) ELSE req[p]]
    /\ UNCHANGED client

(* The caller aborts the AbortSignal it passed in config.signal.           *)
SignalAbort(p) ==
    /\ variant = "config"
    /\ req[p].pc \notin {"idle", "done"}
    /\ req[p].ctl # NoHandle
    /\ req[p].ctl \notin aborted
    /\ aborted' = aborted \cup {req[p].ctl}
    /\ req' = [req EXCEPT ![p] = MarkCancelled(@)]
    /\ UNCHANGED <<client, registry, cancels>>

Next ==
    \/ \E p \in {1} :
        \/ \E m \in Methods, b \in Bodies, s \in BOOLEAN, n \in Omitted..MaxRetriesBound :
               n <= maxRetries /\ ConfigRequest(p, m, b, NoHeaders, s, n)
        \/ \E m \in Methods, b \in Bodies, n \in Omitted..MaxRetriesBound :
               n <= maxRetries /\ PositionalRequest(p, m, b, NoHeaders, n)
        \/ \E m \in Methods, b \in Bodies, n \in Omitted..MaxRetriesBound, id \in Ids :
               n <= maxRetries /\ TrackingRequest(p, m, b, NoHeaders, n, id)
        \/ RequestFulfils(p)
        \/ \E s \in Statuses, b \in BodyKinds, c \in ContentTypes :
               FetchResolve(p, s, b, c)
        \/ \E k \in {"AbortError", "NetworkError"} : FetchReject(p, k)
        \/ ReadSettle(p)
        \/ Tick(p)
        \/ TimerFire(p)
        \/ SignalAbort(p)
    \/ \E id \in Ids : cancelRequest(id)

Spec == Init /\ [][Next]_vars

(* Two concurrent requests of the identifier-tracking variant.             *)
InitConcurrent ==
    /\ Init
    /\ variant = "tracking"
    /\ maxRetries = MaxRetriesBound
    /\ initialDelayMs = 1

NextConcurrent ==
    \/ \E p \in Reqs :
        \/ \E id \in Ids : TrackingRequest(p, "GET", "null", NoHeaders, Omitted, id)
        \/ \E id \in Ids : TrackingRequest(p, "POST", "obj", NoHeaders, Omitted, id)
        \/ RequestFulfils(p)
        \/ \E s \in {200, 503}, b \in BodyKinds : FetchResolve(p, s, b, "other")
        \/ \E k \in {"AbortError", "NetworkError"} : FetchReject(p, k)
        \/ ReadSettle(p)
    \/ \E id \in Ids : cancelRequest(id)

SpecConcurrent == InitConcurrent /\ [][NextConcurrent]_vars

(* One call per client, over the client's default headers, the per-call    *)
(* headers, the method and the body argument.                              *)
InitHeaders ==
    /\ \E h \in HeaderMaps : Construct(h)
    /\ ~withRetry
    /\ maxRetries = 0
    /\ initialDelayMs = 1

NextHeaders ==
    \/ \E m \in Methods, b \in AllBodies, h \in HeaderMaps :
           ConfigRequest(1, m, b, h, FALSE, Omitted)
    \/ \E m \in Methods, b \in AllBodies, h \in HeaderMaps :
           PositionalRequest(1, m, b, h, Omitted)
    \/ \E m \in Methods, b \in AllBodies, h \in HeaderMaps, id \in Ids :
           TrackingRequest(1, m, b, h, Omitted, id)
    \/ RequestFulfils(1)

SpecHeaders == InitHeaders /\ [][NextHeaders]_vars

(* Construction with a present or empty baseUrl and name, then one call.   *)
InitConstruct ==
    /\ \E b \in {"", "https://api"}, n \in {"", "api"} :
           Constructor(b, n, NoHeaders)
    /\ overridden = FALSE
    /\ ~withRetry
    /\ maxRetries = 0
    /\ initialDelayMs = 1

NextConstruct ==
    \/ \E m \in Methods, b \in Bodies :
           ConfigRequest(1, m, b, NoHeaders, FALSE, Omitted)
    \/ \E m \in Methods, b \in Bodies :
           PositionalRequest(1, m, b, NoHeaders, Omitted)
    \/ \E m \in Methods, b \in Bodies, id \in Ids :
           TrackingRequest(1, m, b, NoHeaders, Omitted, id)
    \/ RequestFulfils(1)
    \/ \E s \in Statuses, b \in BodyKinds, c \in ContentTypes :
           FetchResolve(1, s, b, c)
    \/ FetchReject(1, "NetworkError")
    \/ ReadSettle(1)

SpecConstruct == InitConstruct /\ [][NextConstruct]_vars

(* One retry chain with the default or with an overriding handleError.     *)
InitHook ==
    /\ Constructor("https://api", "api", NoHeaders)
    /\ overridden \in BOOLEAN
    /\ withRetry
    /\ initialDelayMs = 1

NextHook ==
    \/ \E n \in Omitted..MaxRetriesBound :
           ConfigRequest(1, "GET", "null", NoHeaders, FALSE, n)
    \/ \E n \in Omitted..MaxRetriesBound :
           PositionalRequest(1, "GET", "null", NoHeaders, n)
    \/ \E n \in Omitted..MaxRetriesBound, id \in Ids :
           TrackingRequest(1, "GET", "null", NoHeaders, n, id)
    \/ RequestFulfils(1)
    \/ \E s \in Statuses, b \in BodyKinds, c \in {"application/json", "other"} :
           FetchResolve(1, s, b, c)
    \/ FetchReject(1, "NetworkError")
    \/ ReadSettle(1)
    \/ Tick(1)
    \/ TimerFire(1)

SpecHook == InitHook /\ [][NextHook]_vars

(* Every transport call, body read and timer eventually completes.         *)
Settles ==
    \/ \E s \in Statuses, b \in BodyKinds, c \in {"application/json", "other"} :
           FetchResolve(1, s, b, c)
    \/ FetchReject(1, "NetworkError")

SpecFair ==
    /\ SpecHook
    /\ WF_vars(RequestFulfils(1))
    /\ WF_vars(Settles)
    /\ WF_vars(ReadSettle(1))
    /\ WF_vars(Tick(1))
    /\ WF_vars(TimerFire(1))

(* ======================= claims ======================================== *)
Dispatched(r) == r.calls >= 1
NotCancelled(r) == r.ctl = NoHandle \/ r.ctl \notin aborted
TransportKinds == {"AbortError", "NetworkError", "TypeError"}
Core(r) == [r EXCEPT !.cancelledAt = "no"]

(* C1: with retry enabled and maxRetries = N, a request issued with its    *)
(* default arguments against a server that answers every attempt with 503  *)
(* makes exactly N+1 transport calls and then fails with an                *)
(* ApiResponseError of status 503.                                         *)
C1_DefaultArgsRetryNPlusOne ==
    \A p \in Reqs :
        ( /\ req[p].pc = "done"
          /\ withRetry
          /\ req[p].defaulted
          /\ Dispatched(req[p])
          /\ req[p].always503
          /\ NotCancelled(req[p]) )
        => /\ req[p].calls = maxRetries + 1
           /\ req[p].outcome = "error"
           /\ req[p].error = ApiResponseError(503)

(* C2: the wait before the retry that follows a failed attempt with retry  *)
(* counter k is exactly initialDelayMs * 2^k (k = 0, 1, 2, ... in a chain  *)
(* started at counter 0), each wait is double the previous one, and a      *)
(* retry is dispatched only when its whole wait has elapsed.               *)
C2_ExponentialBackoff ==
    \A p \in Reqs :
        LET r == req[p]
        IN  /\ \A i \in 1..Len(r.waits) :
                   r.waits[i] = initialDelayMs * Pow2(r.start + i - 1)
            /\ \A i \in 1..(Len(r.waits) - 1) : r.waits[i + 1] = 2 * r.waits[i]
            /\ Len(r.waited) <= Len(r.waits)
            /\ \A i \in 1..Len(r.waited) : r.waited[i] = r.waits[i]
            /\ Dispatched(r) => r.calls = Len(r.waited) + 1
            /\ r.pc = "backoff" => /\ Len(r.waits) = Len(r.waited) + 1
                                   /\ r.delay = r.waits[Len(r.waits)]
                                   /\ r.elapsed <= r.delay

C2_Witness ==
    \E p \in Reqs :
        /\ req[p].start = 0
        /\ Len(req[p].waited) >= 3
        /\ req[p].always503
        /\ initialDelayMs = 2

(* C3: a response with a non-success status below 500 is never retried,    *)
(* even with retry enabled and retries left: that attempt is the last of   *)
(* the chain (one transport call when it is the first attempt) and the     *)
(* ApiResponseError carrying the status surfaces from it.                  *)
C3_ClientErrorSurfacesUnretried ==
    \A p \in Reqs :
        LET r == req[p]
        IN  /\ (r.pc = "backoff" => r.lastStatus >= 500)
            /\ ( /\ r.pc = "done"
                 /\ r.lastStatus = 404
                 /\ NotCancelled(r) )
               => /\ r.outcome = "error"
                  /\ r.error = ApiResponseError(404)
                  /\ (r.waits = <<>> => r.calls = 1)

(* C4 as stated: retries need counter < maxRetries, withRetry and an       *)
(* ApiResponseError of status >= 500, and with withRetry false EVERY call  *)
(* makes exactly one transport call whatever its outcome.                  *)
C4_ExactlyOneCallWithoutRetry ==
    \A p \in Reqs :
        LET r == req[p]
        IN  /\ r.pc = "backoff" =>
                   /\ r.retries < maxRetries
                   /\ withRetry
                   /\ r.error.kind = "ApiResponseError"
                   /\ r.error.status >= 500
            /\ (~withRetry /\ r.pc # "idle") => r.calls = 1

(* C4, amended: a retry happens only when, at the failed attempt, the      *)
(* retry counter is below maxRetries, withRetry is true and the failure is *)
(* an ApiResponseError with status >= 500; a transport failure or an       *)
(* ApiParseError ends the call; with withRetry false a call makes at most  *)
(* one transport call, exactly one once the request has been dispatched.   *)
C4_RetryOnlyWhenRetryable ==
    \A p \in Reqs :
        LET r == req[p]
        IN  /\ r.pc = "backoff" =>
                   /\ r.retries < maxRetries
                   /\ withRetry
                   /\ r.error.kind = "ApiResponseError"
                   /\ r.error.status >= 500
                   /\ r.error.status = r.lastStatus
            /\ (r.error # NoErr /\ r.error.kind # "ApiResponseError")
                   => r.pc = "done"
            /\ Dispatched(r) => r.calls = Len(r.waits) + (IF r.pc = "backoff" THEN 0 ELSE 1)
            /\ r.retries = r.start + Len(r.waited)
            /\ ~withRetry => r.calls <= 1
            /\ (~withRetry /\ r.pc \notin {"idle", "done"}) => r.calls = 1

C4_Witness ==
    \E p \in Reqs :
        /\ req[p].pc = "backoff"
        /\ req[p].retries = 1
        /\ req[p].calls = 2

(* C5: once the caller has cancelled a request while a transport call of   *)
(* it is in flight or during a backoff wait (cancelRequest(id) in the      *)
(* tracking variant, the abort signal in the config variant), no attempt   *)
(* of that request completes successfully, no further retry is scheduled,  *)
(* and the call ends with a transport-level error.                         *)
C5_CancelAbortsChain ==
    \A p \in Reqs :
        LET r == req[p]
        IN  r.cancelledAt # "no" =>
                /\ r.outcome # "ok"
                /\ r.pc = "backoff" => r.cancelledAt = "backoff"
                /\ r.pc = "done" => /\ r.outcome = "error"
                                    /\ r.error.kind \in TransportKinds
                                    /\ r.error.kind # "NetworkError"

C5_Witness ==
    \E p \in Reqs :
        /\ req[p].cancelledAt = "backoff"
        /\ req[p].pc = "done"
        /\ req[p].calls = 2
        /\ req[p].error.kind = "AbortError"

Unshared(p) == \A q \in Reqs \ {p} : req[q].requestId # req[p].requestId
Quiescent == \A p \in Reqs : req[p].pc \in {"idle", "done"}
LastCancelled == cancels'[Len(cancels')]

(* C6: in the tracking variant, cancelRequest(id) called while the         *)
(* transport call of the request with that id is in flight aborts that     *)
(* call's own AbortController, the call fails with the abort error instead *)
(* of producing data, and abortControllers holds no entry for id.          *)
C6_CancelInFlight ==
    \A p \in Reqs :
        LET r == req[p]
        IN  (variant = "tracking" /\ r.cancelledAt = "fetch" /\ Unshared(p)) =>
                /\ r.ctl \in aborted
                /\ abortControllers[r.requestId] = NoHandle
                /\ r.outcome # "ok"
                /\ r.pc \in {"fetch", "done"}
                /\ r.pc = "done" => /\ r.outcome = "error"
                                    /\ r.error = OtherError("AbortError")

C6_Witness ==
    \E p \in Reqs : \E q \in Reqs \ {p} :
        /\ req[p].cancelledAt = "fetch"
        /\ req[p].pc = "done"
        /\ Unshared(p)
        /\ req[q].pc = "fetch"

(* C7: for requests with distinct identifiers, cancelRequest(A) does not   *)
(* abort B's transport call, does not touch B's registry entry and leaves  *)
(* every part of B's state as it was.                                      *)
C7_CancelLeavesOthers ==
    [][ cancels' # cancels =>
          \A p \in Reqs :
              (req[p].requestId \in Ids /\ req[p].requestId # LastCancelled) =>
                  /\ req'[p] = req[p]
                  /\ (req[p].ctl \in aborted') = (req[p].ctl \in aborted)
                  /\ abortControllers'[req[p].requestId]
                         = abortControllers[req[p].requestId] ]_vars

C7_Witness ==
    \E p \in Reqs : \E q \in Reqs \ {p} :
        /\ req[p].requestId # req[q].requestId
        /\ req[p].pc = "fetch"
        /\ req[p].cancelledAt = "fetch"
        /\ req[p].ctl \in aborted
        /\ req[q].pc = "fetch"
        /\ req[q].ctl \notin aborted
        /\ abortControllers[req[q].requestId] = req[q].ctl

(* C8: cancelRequest(id) for an id with no registry entry changes nothing: *)
(* no abort handle is triggered, the registry is untouched and every       *)
(* request keeps its state.                                                *)
C8_CancelUnknownIsNoOp ==
    [][ (cancels' # cancels /\ abortControllers[LastCancelled] = NoHandle) =>
          /\ abortControllers' = abortControllers
          /\ aborted' = aborted
          /\ removals' = removals
          /\ created' = created
          /\ deletedAbsent' = deletedAbsent
          /\ \A p \in Reqs : Core(req'[p]) = Core(req[p]) ]_vars

C8_Witness ==
    /\ Len(cancels) = 2
    /\ cancels[1] = cancels[2]
    /\ created = 1
    /\ removals = 1
    /\ Cardinality(aborted) = 1
    /\ \E p \in Reqs : req[p].pc = "fetch" /\ req[p].requestId = cancels[1]

(* C9: in the tracking variant, when a request's outcome is finalized, and *)
(* whenever no request is in flight, abortControllers holds no entry for   *)
(* the request's id, on every exit path.                                   *)
C9_NoLeak ==
    /\ \A p \in Reqs :
           (variant = "tracking" /\ req[p].pc = "done")
               => abortControllers[req[p].requestId] = NoHandle
    /\ Quiescent => \A id \in Ids : abortControllers[id] = NoHandle

(* C10: every entry stored in abortControllers is removed exactly once: no *)
(* delete is executed for an id whose entry is already absent, and once    *)
(* nothing is in flight as many deletes have run as entries were stored.   *)
C10_RemovedExactlyOnce ==
    /\ ~deletedAbsent
    /\ Quiescent => removals = created

(* --------------------- C11 .. C20 -------------------------------------- *)
Pending(r) == r.pc \notin {"idle", "done"}
Answered(r) == r.last.status # 0
DecodesJson(resp) == variant # "config" \/ resp.ctype = "application/json"

C12_BadJsonIsParseError ==
    \A p \in Reqs :
        LET r == req[p]
        IN  /\ ( /\ r.pc = "done"
                /\ NotCancelled(r)
                /\ r.last.status = 200
                /\ DecodesJson(r.last)
                /\ r.last.body # "json" )
                  => /\ r.outcome = "error"
                     /\ r.error = ApiParseError(200)
            /\ r.pc = "backoff" => r.last.status # 200

(* C13: in the config variant every non-success response raises an         *)
(* ApiResponseError carrying the status and the body (decoded JSON when    *)
(* the body is JSON, the raw text otherwise), and a status >= 500 is       *)
(* retried while retries remain, whatever the body format.                 *)
C13_NonOkIsResponseError ==
    \A p \in Reqs :
        LET r == req[p]
        IN  ( /\ variant = "config"
              /\ r.pc \in {"done", "backoff"}
              /\ NotCancelled(r)
              /\ Answered(r)
              /\ ~ok(r.last.status) )
                => /\ r.error = ApiResponseError(r.last.status)
                   /\ r.payload = (IF r.last.body = "json" THEN "json" ELSE "text")
                   /\ ((withRetry /\ r.last.status >= 500 /\ r.pc = "done")
                          => r.retries >= maxRetries)

(* C14: a failure that ends a dispatched request is passed to handleError  *)
(* exactly once, and with the default hook the error raised to the caller  *)
(* is the failure thrown by the last attempt, unchanged.                   *)
C14_HookRethrowsLastFailure ==
    \A p \in Reqs :
        LET r == req[p]
        IN  (r.pc = "done" /\ r.outcome = "error" /\ Dispatched(r))
                => /\ r.hooked = 1
                   /\ r.hookArg = r.thrown
                   /\ r.thrownAt = r.calls
                   /\ r.error = r.thrown

C14_Witness ==
    \E p \in Reqs :
        /\ req[p].pc = "done"
        /\ req[p].calls >= 2
        /\ req[p].hooked = 1
        /\ req[p].error = ApiResponseError(503)

(* C15: in the config variant a success response is decoded by its         *)
(* Content-Type: application/json as JSON, text/* as text, application/blob*)
(* as a blob, application/x-www-form-urlencoded as key/value pairs; any    *)
(* other or absent Content-Type raises the 'Unsupported response type'     *)
(* error, which is not an ApiParseError and is never retried.              *)
C15_ContentNegotiation ==
    \A p \in Reqs :
        LET r == req[p]
            ct == r.last.ctype
        IN  /\ ( /\ variant = "config"
                /\ r.pc = "done"
                /\ NotCancelled(r)
                /\ ok(r.last.status)
                /\ (ct = "application/json" => r.last.body = "json") )
                  => IF ct \in {"other", "absent"}
                     THEN /\ r.outcome = "error"
                          /\ r.error = OtherError("UnsupportedError")
                     ELSE /\ r.outcome = "ok"
                          /\ r.data = (CASE ct = "application/json" -> "json"
                                         [] ct = "text/plain" -> "text"
                                         [] ct = "application/blob" -> "blob"
                                         [] OTHER -> "form")
            /\ (variant = "config" /\ r.pc = "backoff") => ~ok(r.last.status)

C15_Witness ==
    \E p \in Reqs :
        /\ variant = "config"
        /\ withRetry
        /\ req[p].pc = "done"
        /\ req[p].calls >= 2
        /\ req[p].retries < maxRetries
        /\ req[p].last.ctype = "absent"
        /\ req[p].error = OtherError("UnsupportedError")

(* The layered merge: the default Content-Type, then the client's default *)
(* headers, then the per-call headers, a later layer winning.              *)
LayeredHeaders(r) ==
    [n \in HeaderNames |->
        IF r.customHeaders[n] # Absent THEN r.customHeaders[n]
        ELSE IF headers[n] # Absent THEN headers[n]
        ELSE IF n = "Content-Type" THEN "application/json"
        ELSE Absent]

(* C16: in every variant a request whose method is GET is handed to the    *)
(* transport with a null body on every attempt, and its body argument is   *)
(* never serialized.                                                       *)
C16_GetSendsNoBody ==
    \A p \in Reqs :
        (req[p].method = "GET" /\ req[p].pc # "idle")
            => /\ req[p].sent = NullBody
               /\ ~req[p].serialized

C16_Witness ==
    \E p \in Reqs :
        /\ req[p].method = "GET"
        /\ req[p].body = "obj"
        /\ req[p].pc = "fetch"
        /\ req[p].calls >= 2
        /\ req[p].sent = NullBody

(* C17: in the config variant a dispatched request with a method other     *)
(* than GET and a non-null body argument carries a body: the JSON          *)
(* serialization of the argument when the merged Content-Type is           *)
(* application/json, the argument itself otherwise.                        *)
C17_BodyEncodedByContentType ==
    \A p \in Reqs :
        LET r == req[p]
        IN  ( /\ variant = "config"
              /\ Dispatched(r)
              /\ r.method # "GET"
              /\ r.body # "null" )
                => r.sent = [enc |-> IF LayeredHeaders(r)["Content-Type"]
                                          = "application/json"
                                     THEN "json" ELSE "raw",
                             of |-> r.body]

(* C18: in every variant the headers handed to the transport are the       *)
(* layered merge of the default Content-Type application/json, the         *)
(* client's default headers and the per-call headers, a later layer        *)
(* winning.                                                                *)
C18_LayeredHeaders ==
    \A p \in Reqs :
        req[p].pc # "idle" => req[p].sentHeaders = LayeredHeaders(req[p])

(* C19: in the tracking variant the caller holds the request identifier as *)
(* soon as request() has returned, before anything else happens.           *)
C19_IdReturnedSynchronously ==
    \A p \in Reqs :
        (variant = "tracking" /\ req[p].pc # "idle") => req[p].idReturned

(* C20: in the variants that always decode JSON, a non-success response    *)
(* with a body that is not JSON ends the request with an ApiParseError     *)
(* carrying the status and is never retried, and a non-success response    *)
(* with a JSON body raises an ApiResponseError carrying the status.        *)
C20_NonOkJsonFirst ==
    \A p \in Reqs :
        LET r == req[p]
        IN  ( /\ variant # "config"
              /\ r.pc \in {"done", "backoff"}
              /\ NotCancelled(r)
              /\ Answered(r)
              /\ ~ok(r.last.status) )
                => IF r.last.body = "json"
                   THEN r.error = ApiResponseError(r.last.status)
                   ELSE r.pc = "done" /\ r.error = ApiParseError(r.last.status)

(* --------------------- C21 .. C27 -------------------------------------- *)
(* C21: a received response is reported as an ApiResponseError if and only *)
(* if its status lies outside 200..399.                                    *)
C21_ResponseErrorOutside2xx3xx ==
    \A p \in Reqs :
        LET r == req[p]
        IN  ( /\ r.pc \in {"done", "backoff"}
              /\ NotCancelled(r)
              /\ Answered(r) )
                => ( (r.thrownAt = r.calls /\ r.thrown.kind = "ApiResponseError")
                        <=> (r.last.status < 200 \/ r.last.status > 399) )

(* C22: a client constructed with an empty baseUrl (or, in the config      *)
(* variant, an empty name) does not exist, and no transport call is made.  *)
C22_ConstructorValidates ==
    (baseUrl = "" \/ (variant = "config" /\ name = ""))
        => /\ ~usable
           /\ \A p \in Reqs : req[p].calls = 0

(* C23: handleError is invoked at most once per logical request: exactly   *)
(* once when the last attempt fails, with that attempt's failure, never    *)
(* before the chain ends and never when the last attempt succeeds; when an *)
(* overriding hook returns, the call resolves with null data.              *)
C23_HookOncePerChain ==
    \A p \in Reqs :
        LET r == req[p]
        IN  /\ r.hooked <= 1
            /\ (r.pc # "done" => r.hooked = 0)
            /\ ((r.pc = "done" /\ Dispatched(r))
                  => (r.hooked = 1 <=> r.thrownAt = r.calls))
            /\ (r.hooked = 1
                  => /\ r.hookArg = r.thrown
                     /\ IF overridden
                        THEN r.outcome = "ok" /\ r.data = "null" /\ r.error = NoErr
                        ELSE r.outcome = "error" /\ r.error = r.thrown)

C23_Witness ==
    \E p \in Reqs :
        /\ overridden
        /\ req[p].pc = "done"
        /\ req[p].calls >= 2
        /\ req[p].hooked = 1
        /\ req[p].outcome = "ok"
        /\ req[p].data = "null"

(* C24: with the default hook a call resolves only when its last attempt   *)
(* received a status in 200..299 and decoded its body, and the data is     *)
(* that attempt's decoded body; the fall-through return is not reached.    *)
C24_ResolvesOnlyOnSuccess ==
    \A p \in Reqs :
        LET r == req[p]
        IN  (~overridden /\ r.pc = "done" /\ r.outcome = "ok")
                => /\ r.last.status >= 200 /\ r.last.status <= 299
                   /\ r.thrownAt < r.calls
                   /\ r.hooked = 0
                   /\ r.data \in {"json", "text", "blob", "form"}
                   /\ (r.data = "json" => r.last.body = "json")
                   /\ (variant # "config" => r.data = "json")
                   /\ (variant = "config" =>
                          r.data = (CASE r.last.ctype = "application/json" -> "json"
                                      [] r.last.ctype = "text/plain" -> "text"
                                      [] r.last.ctype = "application/blob" -> "blob"
                                      [] OTHER -> "form"))

C24_Witness ==
    \E p \in Reqs :
        /\ req[p].pc = "done"
        /\ req[p].outcome = "ok"
        /\ req[p].calls >= 3
        /\ Len(req[p].waited) = 2
        /\ req[p].thrown = ApiResponseError(503)
        /\ req[p].data = "json"

MaxCalls(r) ==
    IF maxRetries - r.start + 1 > 1 THEN maxRetries - r.start + 1 ELSE 1

C26_InFlightCancellable ==
    \A p \in Reqs :
        ( /\ variant = "tracking"
          /\ req[p].pc \in {"fetch"} \cup ReadPcs
          /\ NotCancelled(req[p]) )
            => abortControllers[req[p].requestId] = req[p].ctl

(* C27: within one attempt no body reader is invoked on a response whose   *)
(* body an earlier read of that attempt has already consumed.              *)
C27_BodyReadOnce ==
    \A p \in Reqs : ~req[p].reread

====
